---- MODULE Spec2Model ----
(***************************************************************************)
(* A model of binGraph.py: main() resolving the --file arguments, checking *)
(* the output directory, letting the graph modules validate, and           *)
(* generate_graphs() looping over every (file, graph type) pair.           *)
(*                                                                         *)
(* Strings are sequences of tokens.  A token is one character ("a", ".",   *)
(* "/", "-", "\n") or a piece of text no operation of the program looks    *)
(* inside: a template placeholder ("{findex}"), a graph name ("ent"), a    *)
(* format ("png").  str.replace, basename, join, splitext, isalnum and     *)
(* rstrip are computed on these sequences as Python computes them on       *)
(* characters.  An optional value is a sequence of length 0 (None) or 1.   *)
(***************************************************************************)
EXTENDS Integers, Sequences, FiniteSets, TLC

VARIABLES
    argv_files,     \* the --file arguments as given (args.files before line 292)
    listfile,       \* the text of the list file "l" in the working directory
    args,           \* the argparse namespace / args_dict
    pc,             \* where the run is
    index,          \* enumerate() position in args_dict["files"] (0-based)
    tindex,         \* position in __graphtypes__ (1-based)
    abs_save_fpath, \* the local of generate_graphs set by gen_names
    figure,         \* pyplot's current figure: "none", "drawn", "cleared"
    written,        \* the files written so far, in order
    genCalls,       \* the calls of module.generate so far, in order
    validated,      \* the modules whose args_validation has returned
    raisedBy,       \* the call that raised an exception ("" when none did)
    exitStatus      \* <<>> while running, else <<status>>

vars == <<argv_files, listfile, args, pc, index, tindex, abs_save_fpath,
          figure, written, genCalls, validated, raisedBy, exitStatus>>

\* The longest --file argument list tried.
MaxInputs == 2

(***************************************************************************)
(* Strings                                                                 *)
(***************************************************************************)
None == <<>>
Some(x) == <<x>>

Digits == <<"0", "1", "2", "3", "4", "5", "6", "7", "8", "9">>

\* str(n) for n >= 0
RECURSIVE str(_)
str(n) ==
    IF n < Len(Digits) THEN <<Digits[n + 1]>>
    ELSE str(n \div Len(Digits)) \o <<Digits[(n % Len(Digits)) + 1]>>

\* c.isalnum()
isalnum(c) ==
    c \in {"a", "b", "c", "d", "e", "l", "m", "o", "p", "w"}
          \cup {Digits[i] : i \in 1..Len(Digits)}

StartsWith(s, p) == Len(s) >= Len(p) /\ SubSeq(s, 1, Len(p)) = p

\* s.replace(old, new), old non-empty: every non-overlapping occurrence,
\* left to right
RECURSIVE Replace(_, _, _)
Replace(s, old, new) ==
    IF Len(s) < Len(old) THEN s
    ELSE IF StartsWith(s, old)
         THEN new \o Replace(SubSeq(s, Len(old) + 1, Len(s)), old, new)
         ELSE <<Head(s)>> \o Replace(Tail(s), old, new)

\* position of the last c in s, 0 when there is none
LastIndex(s, c) ==
    LET at == {i \in 1..Len(s) : s[i] = c}
    IN  IF at = {} THEN 0 ELSE CHOOSE i \in at : \A j \in at : j <= i

\* os.path.basename
basename(p) == SubSeq(p, LastIndex(p, "/") + 1, Len(p))

\* os.path.join(a, b)
join(a, b) ==
    IF StartsWith(b, <<"/">>) THEN b
    ELSE IF a = <<>> \/ a[Len(a)] = "/" THEN a \o b
    ELSE a \o <<"/">> \o b

\* os.path.splitext(p)[0]: p up to the last dot of its last component,
\* unless that component has no dot or only leading dots
splitext_root(p) ==
    LET sep == LastIndex(p, "/")
        dot == LastIndex(p, ".")
    IN  IF dot > sep /\ \E i \in (sep + 1)..(dot - 1) : p[i] # "."
        THEN SubSeq(p, 1, dot - 1)
        ELSE p

(***************************************************************************)
(* The file system the run sees                                            *)
(***************************************************************************)
CWD == <<"/", "w">>

\* os.path.abspath, for paths without "." and ".." components
abspath(p) == IF StartsWith(p, <<"/">>) THEN p ELSE join(CWD, p)

ListPath == <<"/", "w", "/", "l">>

\* regular, non-empty files that are not symbolic links
RegularFiles ==
    {<<"/", "w", "/", "a", ".", "b">>,
     <<"/", "w", "/", "d", "/", "c">>,
     <<"/", "w", "/", "d", "/", "s", "/", "a">>}
\* regular files of size 0
EmptyFiles == {<<"/", "w", "/", "d", "/", "e">>}
Directories ==
    {<<"/">>, <<"/", "w">>, <<"/", "w", "/", "d">>,
     <<"/", "w", "/", "d", "/", "s">>, <<"/", "w", "/", "o">>}
\* os.walk: a directory's file names and its subdirectories' names, each in
\* listing order
DirFiles(dir) ==
    IF abspath(dir) = <<"/", "w", "/", "d">> THEN <<<<"c">>, <<"e">>>>
    ELSE IF abspath(dir) = <<"/", "w", "/", "d", "/", "s">> THEN <<<<"a">>>>
    ELSE <<>>
DirSubdirs(dir) ==
    IF abspath(dir) = <<"/", "w", "/", "d">> THEN <<<<"s">>>> ELSE <<>>

isdir(p) == abspath(p) \in Directories
isfile(p) == abspath(p) \in RegularFiles \cup EmptyFiles \cup {ListPath}
islink(p) == FALSE
\* what open(p).read() gives; only the list file's text is ever read
FileText(p) == IF abspath(p) = ListPath THEN listfile ELSE <<>>
size_is_zero(p) ==
    \/ abspath(p) \in EmptyFiles
    \/ abspath(p) = ListPath /\ listfile = <<>>

(***************************************************************************)
(* Helper functions of binGraph.py                                         *)
(***************************************************************************)
\* f.readlines(): the text cut after each "\n"
RECURSIVE readlines(_)
readlines(text) ==
    LET nl == {i \in 1..Len(text) : text[i] = "\n"}
    IN  IF text = <<>> THEN <<>>
        ELSE IF nl = {} THEN <<text>>
        ELSE LET i == CHOOSE k \in nl : \A j \in nl : k <= j
             IN  <<SubSeq(text, 1, i)>>
                     \o readlines(SubSeq(text, i + 1, Len(text)))

\* line.rstrip("\n")
RECURSIVE rstrip_nl(_)
rstrip_nl(line) ==
    IF line # <<>> /\ line[Len(line)] = "\n"
    THEN rstrip_nl(SubSeq(line, 1, Len(line) - 1))
    ELSE line

\* [line.rstrip("\n") for line in f.readlines()]
StrippedLines(text) ==
    LET ls == readlines(text) IN [i \in 1..Len(ls) |-> rstrip_nl(ls[i])]

\* File2Strings(filename): None, or the list of lines.  A file that exists
\* but cannot be read falls out of the except branch with None as well.
File2Strings(filename) ==
    IF ~isfile(filename) THEN None
    ELSE Some(StrippedLines(FileText(filename)))

\* the test of lines 59 and 62
IsWantedFile(p) == isfile(p) /\ ~islink(p) /\ ~size_is_zero(p)

RECURSIVE walk(_)
RECURSIVE walk_subdirs(_, _)
\* the files appended for os.walk(dir), lines 55-61
walk(dir) ==
    LET names == DirFiles(dir)
        paths == [i \in 1..Len(names) |-> join(dir, names[i])]
    IN  SelectSeq(paths, IsWantedFile) \o walk_subdirs(dir, DirSubdirs(dir))
walk_subdirs(dir, subs) ==
    IF subs = <<>> THEN <<>>
    ELSE walk(join(dir, Head(subs))) \o walk_subdirs(dir, Tail(subs))

RECURSIVE find_files(_, _)
find_files(search_paths, recurse) ==
    IF search_paths = <<>> THEN <<>>
    ELSE LET f == Head(search_paths)
             found == IF recurse /\ isdir(f) THEN walk(f)
                      ELSE IF IsWantedFile(f) THEN <<abspath(f)>>
                      ELSE <<>>
         IN  found \o find_files(Tail(search_paths), recurse)

clean_fname(fn) == SelectSeq(fn, isalnum)

base_save_fname ==
    <<"{prefix}", "-", "{findex}", "-", "{graphtype}", "-",
      "{cleaned_fname}", ".", "{ffrmt}">>

\* gen_names putting the cleaned file name in with or without an index
gen_names_keep_fname(ffrmt, abs_fpath, abs_save_path, save_prefix, graphtype, findex) ==
    LET s1 == IF save_prefix # None /\ save_prefix[1] # <<>>
              THEN Replace(base_save_fname, <<"{prefix}">>, save_prefix[1])
              ELSE Replace(base_save_fname, <<"{prefix}", "-">>, <<>>)
        s2 == Replace(s1, <<"{graphtype}">>, <<graphtype>>)
        cleaned == clean_fname(basename(abs_fpath))
        s3 == IF findex # None
              THEN Replace(s2, <<"{findex}">>, str(findex[1]))
              ELSE Replace(s2, <<"{findex}", "-">>, <<>>)
        s4 == Replace(s3, <<"{cleaned_fname}">>, cleaned)
        save_fname == Replace(s4, <<"{ffrmt}">>, ffrmt)
    IN  <<join(abs_save_path, save_fname), basename(abs_fpath), cleaned>>

\* gen_names: <<abs_save_fpath, basename, cleaned_fname>>.  save_prefix and
\* findex are optional; graphtype is the module's name.
gen_names(ffrmt, abs_fpath, abs_save_path, save_prefix, graphtype, findex) ==
    LET s1 == IF save_prefix # None /\ save_prefix[1] # <<>>
              THEN Replace(base_save_fname, <<"{prefix}">>, save_prefix[1])
              ELSE Replace(base_save_fname, <<"{prefix}", "-">>, <<>>)
        s2 == Replace(s1, <<"{graphtype}">>, <<graphtype>>)
        cleaned == clean_fname(basename(abs_fpath))
        s3 == IF findex # None
              THEN Replace(Replace(s2, <<"{findex}">>, str(findex[1])),
                           <<"{cleaned_fname}">>, cleaned)
              ELSE Replace(Replace(s2, <<"{findex}", "-">>, <<>>),
                           <<"-", "{cleaned_fname}">>, <<>>)
        save_fname == Replace(s3, <<"{ffrmt}">>, ffrmt)
    IN  <<join(abs_save_path, save_fname), basename(abs_fpath), cleaned>>

\* the graphs dictionary of lines 104-106, in insertion order
graphs == <<"ent", "hist">>

\* __graphtypes__ of lines 149-153 and 301-305
graphtypes(graphtype) == IF graphtype = "all" THEN graphs ELSE <<graphtype>>

\* findex counting from 1
findex_arg_one_based(i, files) == IF Len(files) > 1 THEN Some(i + 1) ELSE None

\* the findex argument of line 168
findex_arg(i, files) == IF Len(files) > 1 THEN Some(i) ELSE None

\* lines 282-290 adding only the paths not yet in __files__
RECURSIVE resolve_files_dedup(_, _)
resolve_files_dedup(files, recurse) ==
    IF files = <<>> THEN Some(<<>>)
    ELSE LET file == files[Len(files)]
             got == IF StartsWith(file, <<"@">>) THEN File2Strings(Tail(file))
                    ELSE Some(find_files(<<file>>, recurse))
             before == resolve_files_dedup(SubSeq(files, 1, Len(files) - 1),
                                           recurse)
         IN  IF got = None \/ before = None THEN None
             ELSE Some(before[1] \o
                       SelectSeq(got[1],
                                 LAMBDA f : \A i \in DOMAIN before[1] :
                                                before[1][i] # f))

\* lines 282-290: None when File2Strings gave None (line 287 raises), else
\* the list __files__
RECURSIVE resolve_files(_, _)
resolve_files(files, recurse) ==
    IF files = <<>> THEN Some(<<>>)
    ELSE LET file == Head(files)
             got == IF StartsWith(file, <<"@">>) THEN File2Strings(Tail(file))
                    ELSE Some(find_files(<<file>>, recurse))
             rest == resolve_files(Tail(files), recurse)
         IN  IF got = None \/ rest = None THEN None
             ELSE Some(got[1] \o rest[1])

\* lines 181-207 with the json test ahead of the showplt test
render_target_json_first(showplt, json, path) ==
    IF json THEN Some(splitext_root(path) \o <<".", "json">>)
    ELSE IF showplt THEN None
    ELSE Some(path)

\* lines 181-207: the file the iteration writes, None when it writes none
render_target(showplt, json, path) ==
    IF showplt THEN None
    ELSE IF json THEN Some(splitext_root(path) \o <<".", "json">>)
    ELSE Some(path)

\* pyplot's clf(), cla() and close() on the current figure; clf and cla
\* make a figure when there is none
plt_clf(fig) == "cleared"
plt_cla(fig) == IF fig = "none" THEN "cleared" ELSE fig
plt_close(fig) == "none"
\* lines 209-211 without the close()
release_figure_no_close(fig) == plt_cla(plt_clf(fig))
\* lines 209-211
release_figure(fig) == plt_close(plt_cla(plt_clf(fig)))

\* the inner for statement left after its first module
next_position_one_type(i, t, nfiles, ntypes) ==
    IF i + 1 < nfiles THEN Some(<<i + 1, 1>>) ELSE None

\* the two for statements of lines 158 and 161: the position after
\* <<i, t>>, None when the loops are over
next_position(i, t, nfiles, ntypes) ==
    IF t < ntypes THEN Some(<<i, t + 1>>)
    ELSE IF i + 1 < nfiles THEN Some(<<i + 1, 1>>)
    ELSE None

(***************************************************************************)
(* The run                                                                 *)
(***************************************************************************)
InputArgs == {<<"a", ".", "b">>, <<"d">>, <<"@", "l">>, <<"@", "m">>}
ListTexts ==
    {<<>>,
     <<"a", ".", "b", "\n", "d">>,
     <<"d", "\n", "\n", "d", "\n">>}
Prefixes == {None, Some(<<>>), Some(<<"p">>), Some(<<"{findex}">>)}
Formats == {<<"png">>, <<"svg">>}
SaveDirs == {<<"o">>, <<"n">>}
GraphSelectors == {"ent", "all"}

Types == graphtypes(args.graphtype)
Module == Types[tindex]

Init ==
    /\ argv_files \in UNION {[1..n -> InputArgs] : n \in 1..MaxInputs}
    /\ listfile \in IF \E i \in DOMAIN argv_files : argv_files[i] = <<"@", "l">>
                    THEN ListTexts ELSE {<<>>}
    /\ \E recurse \in BOOLEAN, prefix \in Prefixes, save_dir \in SaveDirs,
          json \in BOOLEAN, showplt \in BOOLEAN, format \in Formats,
          graphtype \in GraphSelectors :
            args = [files |-> argv_files, recurse |-> recurse,
                    prefix |-> prefix, save_dir |-> save_dir, json |-> json,
                    showplt |-> showplt, format |-> format,
                    graphtype |-> graphtype, abs_fpath |-> None,
                    fname |-> None, cleaned_fname |-> None]
    /\ pc = "files"
    /\ index = 0
    /\ tindex = 1
    /\ abs_save_fpath = None
    /\ figure = "none"
    /\ written = <<>>
    /\ genCalls = <<>>
    /\ validated = <<>>
    /\ raisedBy = ""
    /\ exitStatus = None

\* an uncaught exception ends the interpreter with status 1
Raise(by) ==
    /\ pc' = "raised"
    /\ raisedBy' = by
    /\ exitStatus' = Some(1)

\* main, lines 282-292
ResolveFiles ==
    /\ pc = "files"
    /\ LET r == resolve_files(args.files, args.recurse)
       IN  IF r = None
           THEN Raise("File2Strings") /\ UNCHANGED args
           ELSE /\ args' = [args EXCEPT !.files = r[1]]
                /\ pc' = "save_dir"
                /\ UNCHANGED <<raisedBy, exitStatus>>
    /\ UNCHANGED <<argv_files, listfile, index, tindex, abs_save_fpath,
                   figure, written, genCalls, validated>>

\* lines 295-298 logging the missing directory and going on
CheckSaveDir_no_exit ==
    /\ pc = "save_dir"
    /\ args' = [args EXCEPT !.save_dir = abspath(args.save_dir)]
    /\ pc' = "validate"
    /\ UNCHANGED <<argv_files, listfile, index, tindex, abs_save_fpath,
                   figure, written, genCalls, validated, raisedBy, exitStatus>>

\* main, lines 295-298
CheckSaveDir ==
    /\ pc = "save_dir"
    /\ args' = [args EXCEPT !.save_dir = abspath(args.save_dir)]
    /\ IF ~isdir(abspath(args.save_dir))
       THEN pc' = "exited" /\ exitStatus' = Some(1)
       ELSE pc' = "validate" /\ UNCHANGED exitStatus
    /\ UNCHANGED <<argv_files, listfile, index, tindex, abs_save_fpath,
                   figure, written, genCalls, validated, raisedBy>>

\* main, lines 301-308, every args_validation returning
Validate ==
    /\ pc = "validate"
    /\ validated' = Types
    /\ pc' = "generate_graphs"
    /\ UNCHANGED <<argv_files, listfile, args, index, tindex, abs_save_fpath,
                   figure, written, genCalls, raisedBy, exitStatus>>

\* main, lines 301-308, the k-th args_validation raising
ValidateRaises ==
    /\ pc = "validate"
    /\ \E k \in 1..Len(Types) : validated' = SubSeq(Types, 1, k - 1)
    /\ Raise("args_validation")
    /\ UNCHANGED <<argv_files, listfile, args, index, tindex, abs_save_fpath,
                   figure, written, genCalls>>

\* generate_graphs refusing an empty list of files
StartLoop_rejects_empty ==
    /\ pc = "generate_graphs"
    /\ IF args.files = <<>>
       THEN Raise("generate_graphs")
       ELSE pc' = "gen_names" /\ UNCHANGED <<raisedBy, exitStatus>>
    /\ index' = 0
    /\ tindex' = 1
    /\ UNCHANGED <<argv_files, listfile, args, abs_save_fpath, figure,
                   written, genCalls, validated>>

\* generate_graphs, lines 144-158: into the first iteration, or out of the
\* loops at once when there is no file (main then returns, status 0)
StartLoop ==
    /\ pc = "generate_graphs"
    /\ IF args.files = <<>>
       THEN pc' = "done" /\ exitStatus' = Some(0) /\ UNCHANGED raisedBy
       ELSE pc' = "gen_names" /\ UNCHANGED <<raisedBy, exitStatus>>
    /\ index' = 0
    /\ tindex' = 1
    /\ UNCHANGED <<argv_files, listfile, args, abs_save_fpath, figure,
                   written, genCalls, validated>>

\* generate_graphs, lines 162-172
GenNames ==
    /\ pc = "gen_names"
    /\ LET r == gen_names(args.format, args.files[index + 1], args.save_dir,
                          args.prefix, Module,
                          findex_arg(index, args.files))
       IN  /\ abs_save_fpath' = Some(r[1])
           /\ args' = [args EXCEPT !.abs_fpath = Some(args.files[index + 1]),
                                   !.fname = Some(r[2]),
                                   !.cleaned_fname = Some(r[3])]
    /\ pc' = "generate"
    /\ UNCHANGED <<argv_files, listfile, index, tindex, figure, written,
                   genCalls, validated, raisedBy, exitStatus>>

\* generate_graphs, lines 175-179, module.generate returning a figure
Generate ==
    /\ pc = "generate"
    /\ genCalls' = Append(genCalls, <<index, Module>>)
    /\ figure' = "drawn"
    /\ pc' = "render"
    /\ UNCHANGED <<argv_files, listfile, args, index, tindex, abs_save_fpath,
                   written, validated, raisedBy, exitStatus>>

\* line 175 inside a try whose except logs the error and goes on to the
\* next pair
GenerateRaises_continue ==
    /\ pc = "generate"
    /\ genCalls' = Append(genCalls, <<index, Module>>)
    /\ raisedBy' = "generate"
    /\ LET n == next_position(index, tindex, Len(args.files), Len(Types))
       IN  IF n = None
           THEN /\ pc' = "done"
                /\ exitStatus' = Some(0)
                /\ UNCHANGED <<index, tindex>>
           ELSE /\ pc' = "gen_names"
                /\ index' = n[1][1]
                /\ tindex' = n[1][2]
                /\ UNCHANGED exitStatus
    /\ UNCHANGED <<argv_files, listfile, args, abs_save_fpath, figure,
                   written, validated>>

\* generate_graphs, line 175, module.generate raising: nothing catches it
GenerateRaises ==
    /\ pc = "generate"
    /\ genCalls' = Append(genCalls, <<index, Module>>)
    /\ Raise("generate")
    /\ UNCHANGED <<argv_files, listfile, args, index, tindex, abs_save_fpath,
                   figure, written, validated>>

\* generate_graphs, lines 181-207
Render ==
    /\ pc = "render"
    /\ LET target == render_target(args.showplt, args.json, abs_save_fpath[1])
       IN  written' = IF target = None THEN written
                      ELSE Append(written, [index |-> index, module |-> Module,
                                            path |-> target[1]])
    /\ pc' = "release"
    /\ UNCHANGED <<argv_files, listfile, args, index, tindex, abs_save_fpath,
                   figure, genCalls, validated, raisedBy, exitStatus>>

\* generate_graphs, lines 209-211, and on to the next pair (lines 158, 161)
Release ==
    /\ pc = "release"
    /\ figure' = release_figure(figure)
    /\ LET n == next_position(index, tindex, Len(args.files), Len(Types))
       IN  IF n = None
           THEN /\ pc' = "done"
                /\ exitStatus' = Some(0)
                /\ UNCHANGED <<index, tindex>>
           ELSE /\ pc' = "gen_names"
                /\ index' = n[1][1]
                /\ tindex' = n[1][2]
                /\ UNCHANGED exitStatus
    /\ UNCHANGED <<argv_files, listfile, args, abs_save_fpath, written,
                   genCalls, validated, raisedBy>>

Next ==
    \/ ResolveFiles
    \/ CheckSaveDir
    \/ Validate
    \/ ValidateRaises
    \/ StartLoop
    \/ GenNames
    \/ Generate
    \/ GenerateRaises
    \/ Render
    \/ Release

Spec == Init /\ [][Next]_vars

(***************************************************************************)
(* What the properties below speak of                                      *)
(***************************************************************************)
NFiles == Len(args.files)
NTypes == Len(Types)
\* args.files holds the resolved list
Resolved == pc # "files" /\ raisedBy # "File2Strings"
\* main has just built the resolved list (it is at line 294)
JustResolved == pc = "save_dir"
\* abs_save_fpath is the name gen_names gave the pair <<index, Module>>
Named == pc \in {"generate", "render", "release"}
PrefixSet == args.prefix # None /\ args.prefix[1] # <<>>
Placeholders == {base_save_fname[i] : i \in {1, 3, 5, 7, 9}}
PlainPrefix ==
    PrefixSet => \A i \in DOMAIN args.prefix[1] :
                     args.prefix[1][i] \notin Placeholders
PrefixSegment == IF PrefixSet THEN args.prefix[1] \o <<"-">> ELSE <<>>
Cleaned(i) == clean_fname(basename(args.files[i + 1]))
\* the k-th pair of the nested order: files outside, types inside
PairAt(k) == <<(k - 1) \div NTypes, Types[((k - 1) % NTypes) + 1]>>

(***************************************************************************)
(* C1                                                                      *)
(***************************************************************************)
\* C1 as stated, for the prefixes that hold no template placeholder:
\* whether or not there is a prefix and whether or not there is a batch
\* index, the name gen_names gives is
\* save_dir/[prefix-][index-]type-cleanedbasename.format, the cleaned
\* basename always present.
C1_AllSegments ==
    (Named /\ PlainPrefix) =>
        abs_save_fpath[1] =
            args.save_dir \o <<"/">> \o PrefixSegment
                \o (IF NFiles > 1 THEN str(index) \o <<"-">> ELSE <<>>)
                \o <<Module, "-">> \o Cleaned(index) \o <<".">>
                \o args.format

\* C1 amended: for a prefix free of template placeholders the name is
\* save_dir/[prefix-]index-type-cleanedbasename.format when there is a batch
\* index and save_dir/[prefix-]type.format when there is none: the index
\* and the cleaned basename come and go together.  The prefix segment is
\* left out exactly when the prefix is None or empty.
C1_NameLayout ==
    (Named /\ PlainPrefix) =>
        abs_save_fpath[1] =
            args.save_dir \o <<"/">> \o PrefixSegment
                \o (IF NFiles > 1
                    THEN str(index) \o <<"-", Module, "-">> \o Cleaned(index)
                    ELSE <<Module>>)
                \o <<".">> \o args.format

\* a single-file run with a prefix has its name
C1_Witness == Named /\ PlainPrefix /\ PrefixSet /\ NFiles = 1

(***************************************************************************)
(* C2                                                                      *)
(***************************************************************************)
\* the path gen_names computes for the k-th pair from the run's inputs
NamePathAt(k) ==
    gen_names(args.format, args.files[PairAt(k)[1] + 1], args.save_dir,
              args.prefix, PairAt(k)[2],
              IF NFiles > 1 THEN Some(PairAt(k)[1]) ELSE None)[1]

\* every pair had its generate call, once, in nested order
EveryPairGenerated ==
    /\ Len(genCalls) = NFiles * NTypes
    /\ \A k \in DOMAIN genCalls : genCalls[k] = PairAt(k)

\* the k-th file written belongs to the k-th pair
WrittenForPair(k) ==
    /\ written[k].index = PairAt(k)[1]
    /\ written[k].module = PairAt(k)[2]

EmbedsIndex(name, i, module) ==
    \E k \in 1..Len(name) :
        /\ k = 1 \/ name[k - 1] = "-"
        /\ StartsWith(SubSeq(name, k, Len(name)),
                      str(i) \o <<"-", module, "-">>)

\* name is [prefix-]module.ext and nothing more
HasNoIndex(name, module) ==
    \E ext \in {args.format, <<"json">>} :
        \/ name = <<module, ".">> \o ext
        \/ PrefixSet /\ name = args.prefix[1] \o <<"-", module, ".">> \o ext

\* C3: with more than one file every written path carries the 0-based
\* position of its file in args.files, and files are written in that order;
\* with one file no written path carries an index.  This holds for "all"
\* as it does for a single graph type.
C3_IndexEmbedded ==
    \A k \in DOMAIN written :
        /\ written[k].index \in 0..(NFiles - 1)
        /\ \A j \in 1..(k - 1) : written[j].index <= written[k].index
        /\ IF NFiles > 1
           THEN EmbedsIndex(basename(written[k].path), written[k].index,
                            written[k].module)
           ELSE HasNoIndex(basename(written[k].path), written[k].module)

\* a run over several files with one graph type is done, a file written
\* for each
C3_Witness ==
    /\ pc = "done"
    /\ NFiles > 1 /\ NTypes = 1
    /\ Len(written) = NFiles
    /\ written[NFiles].index = NFiles - 1

(***************************************************************************)
(* C4                                                                      *)
(***************************************************************************)
\* C4: with showplt no file is ever written, whatever json, format, prefix
\* and save_dir are.
C4_InteractiveWritesNothing == args.showplt => written = <<>>

\* a run with showplt and json both set is done after rendering
C4_Witness ==
    /\ pc = "done"
    /\ args.showplt /\ args.json
    /\ genCalls # <<>>

(***************************************************************************)
(* C5                                                                      *)
(***************************************************************************)
\* the module's place in __graphtypes__
TypePosition(module) == CHOOSE t \in DOMAIN Types : Types[t] = module

\* C5 as stated: generate raising for one pair does not keep the pairs
\* after it from being processed, so a run that has ended inside or after
\* the loops has made its generate call for every pair.
C5_ContinuesAfterFailure ==
    (pc \in {"done", "raised"} /\ genCalls # <<>>) =>
        Len(genCalls) = NFiles * NTypes

\* C5 amended: generate raising for one pair ends the run there with
\* status 1: the failing call is the last generate call, no file is written
\* for the failing pair or any pair after it, and the files of the pairs
\* before it stay written.
C5_FailureEndsRun ==
    raisedBy = "generate" =>
        /\ pc = "raised"
        /\ exitStatus = Some(1)
        /\ genCalls[Len(genCalls)] = <<index, Module>>
        /\ \A k \in 1..(Len(genCalls) - 1) : genCalls[k] = PairAt(k)
        /\ \A k \in DOMAIN written :
               \/ written[k].index < index
               \/ /\ written[k].index = index
                  /\ TypePosition(written[k].module) < tindex
        /\ ~args.showplt => Len(written) = Len(genCalls) - 1

\* generate raised for a pair that has pairs written before it and pairs
\* left after it
C5_Witness ==
    /\ raisedBy = "generate"
    /\ written # <<>>
    /\ Len(genCalls) < NFiles * NTypes

(***************************************************************************)
(* C6                                                                      *)
(***************************************************************************)
\* C6: when save_dir is no directory the run gets no further than the
\* check of lines 296-298: no args_validation, no generate call, no file
\* written, and it ends with a status other than 0.
C6_MissingSaveDirAborts ==
    ~isdir(args.save_dir) =>
        /\ pc \in {"files", "save_dir", "exited", "raised"}
        /\ validated = <<>>
        /\ genCalls = <<>>
        /\ written = <<>>
        /\ pc \in {"exited", "raised"} =>
               exitStatus # None /\ exitStatus[1] # 0
        /\ pc = "raised" => raisedBy = "File2Strings"

\* the run has exited at the save_dir check with files to process
C6_Witness ==
    /\ pc = "exited"
    /\ ~isdir(args.save_dir)
    /\ args.files # <<>>
    /\ exitStatus = Some(1)

(***************************************************************************)
(* C7                                                                      *)
(***************************************************************************)
\* C7 as stated: an empty resolved list is refused, so no run ends done
\* with it.
C7_EmptyListRefused == pc = "done" => args.files # <<>>

\* C7 amended: an empty resolved list is no error of its own: the run goes
\* on to the save_dir check and the validation, generate_graphs loops zero
\* times, and the run ends with status 0 and nothing written unless
\* save_dir is missing or args_validation raises.
C7_EmptyListCompletes ==
    (Resolved /\ args.files = <<>>) =>
        /\ pc \in {"save_dir", "validate", "generate_graphs", "done",
                    "exited", "raised"}
        /\ genCalls = <<>>
        /\ written = <<>>
        /\ pc = "exited" => ~isdir(args.save_dir)
        /\ pc = "raised" => raisedBy = "args_validation"
        /\ pc = "done" => exitStatus = Some(0) /\ validated = Types

\* a run whose every input was skipped is done with status 0
C7_Witness ==
    /\ pc = "done"
    /\ args.files = <<>>
    /\ exitStatus = Some(0)
    /\ \A i \in DOMAIN argv_files : argv_files[i] = <<"d">>

(***************************************************************************)
(* C8                                                                      *)
(***************************************************************************)
IsListArg(file) == StartsWith(file, <<"@">>)
Count(text, c) == Cardinality({i \in DOMAIN text : text[i] = c})
RECURSIVE JoinLines(_)
\* the lines with a "\n" between each two
JoinLines(lines) ==
    IF lines = <<>> THEN <<>>
    ELSE IF Len(lines) = 1 THEN lines[1]
    ELSE lines[1] \o <<"\n">> \o JoinLines(Tail(lines))

\* lines are all the lines of text, blank ones too: none holds a "\n",
\* there is one per "\n" and one more for an unterminated last line, and
\* joined by "\n" they give text back (less its final "\n")
AreLinesOf(lines, text) ==
    /\ \A i \in DOMAIN lines : Count(lines[i], "\n") = 0
    /\ Len(lines) = Count(text, "\n")
                      + (IF text # <<>> /\ text[Len(text)] # "\n"
                         THEN 1 ELSE 0)
    /\ text = JoinLines(lines)
                  \o (IF text # <<>> /\ text[Len(text)] = "\n"
                      THEN <<"\n">> ELSE <<>>)

\* cuts[i-1]+1 .. cuts[i] is the part of args.files that argument i gave
IsSplit(cuts) ==
    /\ cuts[Len(argv_files)] = NFiles
    /\ \A i \in DOMAIN argv_files :
           (IF i = 1 THEN 0 ELSE cuts[i - 1]) <= cuts[i]
Part(cuts, i) ==
    SubSeq(args.files, (IF i = 1 THEN 0 ELSE cuts[i - 1]) + 1, cuts[i])

\* text without its blank lines: no "\n" at the start and none after a "\n"
RECURSIVE SqueezeBlank(_)
SqueezeBlank(text) ==
    IF text = <<>> THEN <<>>
    ELSE IF Head(text) = "\n" THEN SqueezeBlank(Tail(text))
    ELSE LET nl == {i \in DOMAIN text : text[i] = "\n"}
             i == IF nl = {} THEN Len(text)
                  ELSE CHOOSE k \in nl : \A j \in nl : k <= j
         IN  SubSeq(text, 1, i) \o SqueezeBlank(SubSeq(text, i + 1, Len(text)))

\* C8 as stated: the part of the resolved list an "@l" argument gives is
\* the non-blank lines of the list file, each without its "\n", in file
\* order and taken as they are; a missing list file ends the run.
C8_NonBlankLines ==
    /\ JustResolved =>
        \E cuts \in [DOMAIN argv_files -> 0..NFiles] :
            /\ IsSplit(cuts)
            /\ \A i \in DOMAIN argv_files :
                   IsListArg(argv_files[i]) =>
                       /\ \A j \in DOMAIN Part(cuts, i) :
                              Part(cuts, i)[j] # <<>>
                       /\ AreLinesOf(Part(cuts, i), SqueezeBlank(listfile))
    /\ (\E i \in DOMAIN argv_files : argv_files[i] = <<"@", "m">>) =>
           pc \in {"files", "raised"}

\* C8, what the code does: the part of the resolved list an "@l" argument
\* gives is all the lines of the list file, blank ones included as empty
\* paths, each without its "\n", in file order, taken as they are whatever
\* recurse is and whatever they name; a list file that is missing ends the
\* run with an exception before anything else is done.
C8_AllLinesVerbatim ==
    /\ JustResolved =>
           \E cuts \in [DOMAIN argv_files -> 0..NFiles] :
               /\ IsSplit(cuts)
               /\ \A i \in DOMAIN argv_files :
                      IsListArg(argv_files[i]) =>
                          AreLinesOf(Part(cuts, i), listfile)
    /\ (\E i \in DOMAIN argv_files : argv_files[i] = <<"@", "m">>) =>
           /\ pc \in {"files", "raised"}
           /\ pc = "raised" =>
                  raisedBy = "File2Strings" /\ exitStatus = Some(1)
           /\ validated = <<>> /\ genCalls = <<>> /\ written = <<>>

\* a list with a blank line and a directory's name is resolved with
\* recurse set
C8_Witness ==
    /\ Resolved
    /\ args.recurse
    /\ argv_files = <<<<"@", "l">>>>
    /\ listfile = <<"d", "\n", "\n", "d", "\n">>
    /\ args.files = <<<<"d">>, <<>>, <<"d">>>>

(***************************************************************************)
(* C9                                                                      *)
(***************************************************************************)
\* what each literal argument of the runs tried stands for in this file
\* system
LiteralGives(file) ==
    IF file = <<"a", ".", "b">> THEN <<<<"/", "w", "/", "a", ".", "b">>>>
    ELSE IF file = <<"d">> /\ args.recurse
         THEN <<<<"d", "/", "c">>, <<"d", "/", "s", "/", "a">>>>
    ELSE <<>>

\* argument order is kept and nothing is dropped as a duplicate
OrderKept ==
    JustResolved =>
        \E cuts \in [DOMAIN argv_files -> 0..NFiles] :
            /\ IsSplit(cuts)
            /\ \A i \in DOMAIN argv_files :
                   ~IsListArg(argv_files[i]) =>
                       Part(cuts, i) = LiteralGives(argv_files[i])

\* C9 as stated: the order is kept, nothing is dropped, and the files
\* written for two entries of the same path and the same graph type have
\* the same name.
C9_DuplicatesOverwrite ==
    /\ OrderKept
    /\ \A j, k \in DOMAIN written :
           (/\ args.files[written[j].index + 1]
                  = args.files[written[k].index + 1]
            /\ written[j].module = written[k].module)
               => written[j].path = written[k].path

\* C9 amended: the order is kept and nothing is dropped, so a path given
\* twice is in the resolved list twice; its entries have different batch
\* indices, so their files have different names, and no file written in a
\* run overwrites another of that run.
C9_DuplicatesKeptApart ==
    /\ OrderKept
    /\ \A j, k \in DOMAIN written :
           j # k => written[j].path # written[k].path

\* the same file given twice, both its files written
C9_Witness ==
    /\ pc = "done"
    /\ argv_files = <<<<"a", ".", "b">>, <<"a", ".", "b">>>>
    /\ NFiles = 2 /\ args.files[1] = args.files[2]
    /\ Len(written) = 2 * NTypes

(***************************************************************************)
(* C10                                                                     *)
(***************************************************************************)
\* the steps of an iteration follow one another in the order name,
\* generate, render, release, and the release leaves no figure
StepOrder ==
    /\ pc = "gen_names" => pc' = "generate"
    /\ pc = "generate" => pc' \in {"render", "raised"}
    /\ pc = "render" => pc' = "release"
    /\ pc = "release" => pc' \in {"gen_names", "done"} /\ figure' = "none"
    /\ pc' = "generate" => pc = "gen_names"
    /\ pc' = "render" => pc = "generate"
    /\ pc' = "release" => pc = "render"

\* C10: each iteration names, generates, renders and releases in that
\* order, and whenever generate is about to be called no figure of an
\* earlier iteration is left.
C10_ReleasedBeforeGenerate ==
    /\ [][StepOrder]_vars
    /\ [](pc = "generate" => figure = "none")

\* generate is about to be called after an earlier iteration wrote a file
C10_Witness ==
    /\ pc = "generate"
    /\ genCalls # <<>>
    /\ written # <<>>

====
